---- MODULE Spec2Model ----
(***************************************************************************)
(* Model of cmod::Mesh (src/src/celmodel/mesh.cpp): the runtime vertex     *)
(* layout, the packed vertex buffer, the primitive groups with their line  *)
(* overrides, and the queries pick / transform / getPrimitiveCount.        *)
(*                                                                         *)
(* Buffers are sequences of bytes (0..255).  A float stored in a buffer is *)
(* its IEEE-754 binary32 image, little-endian; the model's numbers count   *)
(* halves (the integer h stands for the float h/2), which makes the        *)
(* constants -0.5f and 0.5f of the line expansion representable.           *)
(***************************************************************************)
EXTENDS Integers, Sequences, FiniteSets, TLC

VARIABLES
    vertexDesc,   \* Mesh::vertexDesc
    nVertices,    \* Mesh::nVertices
    vertices,     \* Mesh::vertices (the owned buffer)
    groups,       \* Mesh::groups (vector of PrimitiveGroup*)
    ret,          \* what the last call returned, with the arguments it was given
    result,       \* the caller's PickResult object handed to pick
    distance      \* the caller's double handed to the distance overload of pick

vars == <<vertexDesc, nVertices, vertices, groups, ret, result, distance>>

(***************************************************************************)
(* Bounds of the model.                                                    *)
(***************************************************************************)
MaxAttributes == 2     \* fields of a layout handed to setVertexDescription
MaxOffset == 4         \* largest field offset handed to setVertexDescription
MaxGroups == 2         \* batches of a mesh
MaxIndices == 3        \* indices of a batch
MaxMaterial == 1       \* largest material index
MaxLineGroups == 1     \* line batches of a mesh that is transformed
MaxLineIndices == 3    \* indices of a line batch of such a mesh
MaxCoordinate == 12    \* a transform is applied while no coordinate exceeds this (halves)

(***************************************************************************)
(* Small helpers.                                                          *)
(***************************************************************************)
Abs(x) == IF x < 0 THEN -x ELSE x

\* 2^k for k < 31
Pow2(k) ==
    <<1, 2, 4, 8, 16, 32, 64, 128, 256, 512, 1024, 2048, 4096, 8192, 16384, 32768,
      65536, 131072, 262144, 524288, 1048576, 2097152, 4194304, 8388608, 16777216,
      33554432, 67108864, 134217728, 268435456, 536870912, 1073741824>>[k + 1]

SeqsUpTo(S, n) == UNION {[1..k -> S] : k \in 0..n}

(***************************************************************************)
(* VertexAttribute and VertexDescription.                                  *)
(***************************************************************************)
Semantics == {"Position", "Normal", "PointSize", "NextPosition", "ScaleFactor"}

getFormatSize(format) ==
    CASE format = "Float1" -> 4
      [] format = "Float2" -> 8
      [] format = "Float3" -> 12
      [] format = "Float4" -> 16
      [] format = "UByte4" -> 4
      [] OTHER -> 0

VertexAttribute(semantic, format, offset) ==
    [semantic |-> semantic, format |-> format, offset |-> offset]

\* VertexAttribute(): the "absent" field a lookup returns for an unregistered semantic
InvalidAttribute == VertexAttribute("InvalidSemantic", "InvalidFormat", 0)

clearSemanticMap == [s \in Semantics |-> InvalidAttribute]

RECURSIVE buildSemanticMap(_, _)
buildSemanticMap(semanticMap, attributes) ==
    IF attributes = <<>> THEN semanticMap
    ELSE buildSemanticMap(
            [semanticMap EXCEPT ![Head(attributes).semantic] = Head(attributes)],
            Tail(attributes))

VertexDescription(stride, attributes) ==
    [stride |-> stride,
     attributes |-> attributes,
     semanticMap |-> IF attributes # <<>>
                     THEN buildSemanticMap(clearSemanticMap, attributes)
                     ELSE clearSemanticMap]

getAttribute(desc, semantic) == desc.semanticMap[semantic]

validate_NoAlignment(desc) ==
    \A i \in 1..Len(desc.attributes) :
        ~(desc.attributes[i].offset + getFormatSize(desc.attributes[i].format) > desc.stride)

validate(desc) ==
    \A i \in 1..Len(desc.attributes) :
        ~(\/ desc.attributes[i].offset % 4 # 0
          \/ desc.attributes[i].offset + getFormatSize(desc.attributes[i].format) > desc.stride)


appendingAttributes(desc, newAttributes) ==
    LET RECURSIVE newStride(_, _)
        newStride(stride, attrs) ==
            IF attrs = <<>> THEN stride
            ELSE newStride(stride + getFormatSize(Head(attrs).format), Tail(attrs))
    IN  VertexDescription(newStride(desc.stride, newAttributes),
                          desc.attributes \o newAttributes)

(***************************************************************************)
(* unsigned int (32 bits) as two 16-bit halves, so that a wrapped value    *)
(* such as 2^32 - 2 stays within 32-bit signed integers.                   *)
(***************************************************************************)
HalfWord == 65536

U32(n) == [hi |-> (n \div HalfWord) % HalfWord, lo |-> n % HalfWord]

U32Add(a, b) ==
    [hi |-> (a.hi + b.hi + (a.lo + b.lo) \div HalfWord) % HalfWord,
     lo |-> (a.lo + b.lo) % HalfWord]

\* a - b modulo 2^32
U32Sub(a, b) ==
    LET borrow == IF a.lo < b.lo THEN 1 ELSE 0
    IN  [hi |-> (a.hi - b.hi - borrow + HalfWord) % HalfWord,
         lo |-> (a.lo - b.lo + HalfWord) % HalfWord]

(***************************************************************************)
(* float: IEEE-754 binary32, little-endian.  h counts halves.              *)
(***************************************************************************)
RECURSIVE Log2(_)
Log2(a) == IF a < 2 THEN 0 ELSE 1 + Log2(a \div 2)

EncodeFloat(h) ==
    IF h = 0 THEN <<0, 0, 0, 0>>
    ELSE LET a == Abs(h)
             l == Log2(a)
             bexp == 126 + l
             mant == (a - Pow2(l)) * Pow2(23 - l)
             sign == IF h < 0 THEN 1 ELSE 0
         IN  <<mant % 256,
               (mant \div 256) % 256,
               (bexp % 2) * 128 + mant \div 65536,
               sign * 128 + bexp \div 2>>

DecodeFloat(b) ==
    LET bexp == (b[4] % 128) * 2 + b[3] \div 128
        mant == (b[3] % 128) * 65536 + b[2] * 256 + b[1]
        full == 8388608 + mant
        a == IF bexp >= 149 THEN full * Pow2(bexp - 149) ELSE full \div Pow2(149 - bexp)
    IN  IF bexp = 0 THEN 0
        ELSE IF b[4] >= 128 THEN -a ELSE a

(***************************************************************************)
(* Buffers: an owned allocation is its address and its bytes.              *)
(***************************************************************************)
NullBuffer == [null |-> TRUE, addr |-> 0, bytes |-> <<>>]

Buffer(addr, bytes) == [null |-> FALSE, addr |-> addr, bytes |-> bytes]

\* memcpy(dst, bytes + at, size): the size bytes that start at byte offset at
ReadBytes(bytes, at, size) == SubSeq(bytes, at + 1, at + size)

\* memcpy(bytes + at, data, Len(data))
WriteBytes(bytes, at, data) ==
    SubSeq(bytes, 1, at) \o data \o SubSeq(bytes, at + Len(data) + 1, Len(bytes))

\* Eigen::Map<Vector3f>(bytes + at): three consecutive floats
ReadVector3f(bytes, at) ==
    <<DecodeFloat(ReadBytes(bytes, at, 4)),
      DecodeFloat(ReadBytes(bytes, at + 4, 4)),
      DecodeFloat(ReadBytes(bytes, at + 8, 4))>>

WriteVector3f(bytes, at, v) ==
    WriteBytes(bytes, at, EncodeFloat(v[1]) \o EncodeFloat(v[2]) \o EncodeFloat(v[3]))

UnwrittenResult == [written |-> FALSE]

UnwrittenDistance == [written |-> FALSE]

(***************************************************************************)
(* PrimitiveGroup                                                          *)
(***************************************************************************)
PrimitiveGroupTypes ==
    {"TriList", "TriStrip", "TriFan", "LineList", "LineStrip", "PointList", "SpriteList"}

\* new PrimitiveGroup(): ptr is the identity of the allocation
PrimitiveGroup(ptr) ==
    [ptr |-> ptr,
     prim |-> "InvalidPrimitiveGroupType",
     materialIndex |-> 0,
     indices |-> <<>>,
     primOverride |-> "InvalidPrimitiveGroupType",
     indicesOverride |-> <<>>,
     vertexOverride |-> NullBuffer,
     vertexCountOverride |-> 0,
     vertexDescriptionOverride |-> VertexDescription(0, <<>>)]

\* indices.size() is a size_t; the result is cut to unsigned int
getPrimitiveCount(group) ==
    LET size == U32(Len(group.indices))
    IN  CASE group.prim = "TriList" -> U32(Len(group.indices) \div 3)
          [] group.prim \in {"TriStrip", "TriFan"} -> U32Sub(size, U32(2))
          [] group.prim = "LineList" -> U32(Len(group.indices) \div 2)
          [] group.prim = "LineStrip" -> U32Sub(size, U32(2))
          [] group.prim \in {"PointList", "SpriteList"} -> size
          [] OTHER -> U32(0)

(***************************************************************************)
(* Mesh construction.                                                      *)
(***************************************************************************)
Init ==
    /\ vertexDesc = VertexDescription(0, <<>>)
    /\ nVertices = 0
    /\ vertices = NullBuffer
    /\ groups = <<>>
    /\ ret = [op |-> "Mesh"]
    /\ result = UnwrittenResult
    /\ distance = UnwrittenDistance

(***************************************************************************)
(* Mesh::setVertexDescription                                              *)
(***************************************************************************)
SetVertexDescription(desc) ==
    /\ IF ~validate(desc)
       THEN /\ ret' = [op |-> "setVertexDescription", desc |-> desc, value |-> FALSE]
            /\ UNCHANGED vertexDesc
       ELSE /\ vertexDesc' = desc
            /\ ret' = [op |-> "setVertexDescription", desc |-> desc, value |-> TRUE]
    /\ UNCHANGED <<nVertices, vertices, groups, result, distance>>

(***************************************************************************)
(* Mesh::setVertices: a no-op for the buffer already held, else the old    *)
(* buffer is released and the new one owned.                               *)
(***************************************************************************)
SetVertices(_nVertices, vertexData) ==
    /\ IF vertexData.addr = vertices.addr /\ vertexData.null = vertices.null
       THEN UNCHANGED <<nVertices, vertices>>
       ELSE /\ nVertices' = _nVertices
            /\ vertices' = vertexData
    /\ ret' = [op |-> "setVertices"]
    /\ UNCHANGED <<vertexDesc, groups, result, distance>>

(***************************************************************************)
(* Mesh::createLinePrimitiveGroup                                          *)
(***************************************************************************)
\* int lineCount = lineStrip ? indices.size() - 1 : indices.size() / 2;
\* the size_t value 0 - 1 converts to the int -1
lineCountOf(lineStrip, size) ==
    IF lineStrip THEN size - 1 ELSE size \div 2

\* the four vertices written for one segment, in the order of the memcpy calls
lineVertices_SwappedEnds(bytes, thisIndex, nextIndex, originalStride, positionOffset, positionSize) ==
    LET origThisVertLoc == thisIndex * originalStride
        origNextVertLoc == nextIndex * originalStride
        thisRecord == ReadBytes(bytes, origThisVertLoc, originalStride)
        nextRecord == ReadBytes(bytes, origNextVertLoc, originalStride)
        thisPosition == ReadBytes(bytes, origThisVertLoc + positionOffset, positionSize)
        nextPosition == ReadBytes(bytes, origNextVertLoc + positionOffset, positionSize)
    IN  thisRecord \o nextPosition \o EncodeFloat(-1)
        \o thisRecord \o nextPosition \o EncodeFloat(1)
        \o thisRecord \o thisPosition \o EncodeFloat(-1)
        \o nextRecord \o thisPosition \o EncodeFloat(1)

lineVertices(bytes, thisIndex, nextIndex, originalStride, positionOffset, positionSize) ==
    LET origThisVertLoc == thisIndex * originalStride
        origNextVertLoc == nextIndex * originalStride
        thisRecord == ReadBytes(bytes, origThisVertLoc, originalStride)
        nextRecord == ReadBytes(bytes, origNextVertLoc, originalStride)
        thisPosition == ReadBytes(bytes, origThisVertLoc + positionOffset, positionSize)
        nextPosition == ReadBytes(bytes, origNextVertLoc + positionOffset, positionSize)
    IN  thisRecord \o nextPosition \o EncodeFloat(-1)
        \o thisRecord \o nextPosition \o EncodeFloat(1)
        \o nextRecord \o thisPosition \o EncodeFloat(-1)
        \o nextRecord \o thisPosition \o EncodeFloat(1)

\* the six indices pushed for segment i
lineIndices(i) ==
    <<4 * i, 4 * i + 1, 4 * i + 2, 4 * i + 2, 4 * i + 3, 4 * i>>

\* The result is [threw |-> TRUE] when new[] is asked for a negative size,
\* else the group g that the function returns.
createLinePrimitiveGroup(ptr, lineStrip, indices) ==
    LET positionAttributes == getAttribute(vertexDesc, "Position")
        positionSize == getFormatSize(positionAttributes.format)
        positionOffset == positionAttributes.offset
        originalStride == vertexDesc.stride
        stride == originalStride + positionSize + 4
        lineCount == lineCountOf(lineStrip, Len(indices))
        lineVertexCount == 4 * lineCount
        RECURSIVE fill(_, _, _)
        fill(i, data, newIndices) ==
            IF ~(i < lineCount) THEN <<data, newIndices>>
            ELSE LET thisIndex == indices[(IF lineStrip THEN i ELSE i * 2) + 1]
                     nextIndex == indices[(IF lineStrip THEN i + 1 ELSE i * 2 + 1) + 1]
                 IN  fill(i + 1,
                          data \o lineVertices(vertices.bytes, thisIndex, nextIndex,
                                               originalStride, positionOffset, positionSize),
                          newIndices \o lineIndices(i))
        filled == fill(0, <<>>, <<>>)
        newAttributes ==
            <<VertexAttribute("NextPosition", positionAttributes.format, originalStride),
              VertexAttribute("ScaleFactor", "Float1", originalStride + positionSize)>>
    IN  IF stride * lineVertexCount < 0
        THEN [threw |-> TRUE]
        ELSE [threw |-> FALSE,
              g |-> [PrimitiveGroup(ptr) EXCEPT
                        !.vertexOverride = Buffer(ptr, filled[1]),
                        !.vertexCountOverride = lineVertexCount,
                        !.vertexDescriptionOverride =
                            appendingAttributes(vertexDesc, newAttributes),
                        !.indicesOverride = filled[2],
                        !.primOverride = "TriList"]]

(***************************************************************************)
(* Mesh::addGroup(prim, materialIndex, indices), with the push_back of the *)
(* one-argument addGroup.  An exception leaves the mesh as it was.         *)
(***************************************************************************)
AddGroup(prim, materialIndex, indices) ==
    LET ptr == Len(groups) + 1
        made == IF prim = "LineStrip" \/ prim = "LineList"
                THEN createLinePrimitiveGroup(ptr, prim = "LineStrip", indices)
                ELSE [threw |-> FALSE,
                      g |-> [PrimitiveGroup(ptr) EXCEPT !.primOverride = prim]]
    IN  /\ IF made.threw
           THEN /\ UNCHANGED groups
                /\ ret' = [op |-> "addGroup", threw |-> TRUE, prim |-> prim,
                           materialIndex |-> materialIndex, indices |-> indices]
           ELSE /\ groups' = Append(groups, [made.g EXCEPT !.indices = indices,
                                                            !.prim = prim,
                                                            !.materialIndex = materialIndex])
                /\ ret' = [op |-> "addGroup", threw |-> FALSE, prim |-> prim,
                           materialIndex |-> materialIndex, indices |-> indices,
                           value |-> Len(groups) + 1]
        /\ UNCHANGED <<vertexDesc, nVertices, vertices, result, distance>>

(***************************************************************************)
(* Mesh::aggregateByMaterial: std::sort leaves the order of batches with   *)
(* equal material index unspecified, so any sorted arrangement can result. *)
(***************************************************************************)
Arrangements(n) == {p \in [1..n -> 1..n] : \A i, j \in 1..n : p[i] = p[j] => i = j}

sort(seq) ==
    {[i \in 1..Len(seq) |-> seq[p[i]]] : p \in
        {q \in Arrangements(Len(seq)) :
            \A i, j \in 1..Len(seq) :
                i < j => ~(seq[q[j]].materialIndex < seq[q[i]].materialIndex)}}

AggregateByMaterial ==
    /\ groups' \in sort(groups)
    /\ ret' = [op |-> "aggregateByMaterial", before |-> groups]
    /\ UNCHANGED <<vertexDesc, nVertices, vertices, result, distance>>

(***************************************************************************)
(* PrimitiveGroup::getPrimitiveCount of groups[index], through getGroup,   *)
(* and Mesh::getPrimitiveCount.                                            *)
(***************************************************************************)
GroupGetPrimitiveCount(index) ==
    /\ index \in 1..Len(groups)
    /\ ret' = [op |-> "PrimitiveGroup::getPrimitiveCount", group |-> index,
               value |-> getPrimitiveCount(groups[index])]
    /\ UNCHANGED <<vertexDesc, nVertices, vertices, groups, result, distance>>

RECURSIVE sumPrimitiveCount(_, _)
sumPrimitiveCount(count, rest) ==
    IF rest = <<>> THEN count
    ELSE sumPrimitiveCount(U32Add(count, getPrimitiveCount(Head(rest))), Tail(rest))

GetPrimitiveCount ==
    /\ ret' = [op |-> "getPrimitiveCount", value |-> sumPrimitiveCount(U32(0), groups)]
    /\ UNCHANGED <<vertexDesc, nVertices, vertices, groups, result, distance>>

(***************************************************************************)
(* Mesh::transform                                                         *)
(***************************************************************************)
\* float product of two numbers counted in halves
FloatMul(a, b) == (a * b) \div 2

\* Map<Vector3f>(bytes + at) = (Map<Vector3f>(bytes + at) + translation) * scale
transformVector3f(bytes, at, translation, scale) ==
    LET v == ReadVector3f(bytes, at)
    IN  WriteVector3f(bytes, at, <<FloatMul(v[1] + translation[1], scale),
                                   FloatMul(v[2] + translation[2], scale),
                                   FloatMul(v[3] + translation[3], scale)>>)

\* one pass of a loop "for (i = 0; i < count; i++, vdata += stride)" over a field
RECURSIVE transformField(_, _, _, _, _, _, _)
transformField(bytes, i, count, stride, offset, translation, scale) ==
    IF ~(i < count) THEN bytes
    ELSE transformField(transformVector3f(bytes, i * stride + offset, translation, scale),
                        i + 1, count, stride, offset, translation, scale)

RECURSIVE transformOverrideVertices(_, _, _, _, _, _, _, _)
transformOverrideVertices(bytes, j, count, stride, positionOffset, nextPositionOffset, translation, scale) ==
    IF ~(j < count) THEN bytes
    ELSE transformOverrideVertices(
            transformVector3f(
                transformVector3f(bytes, j * stride + positionOffset, translation, scale),
                j * stride + nextPositionOffset, translation, scale),
            j + 1, count, stride, positionOffset, nextPositionOffset, translation, scale)

transformOverride_PositionOnly(group, translation, scale) ==
    IF group.vertexOverride.null THEN group
    ELSE LET desc == group.vertexDescriptionOverride
         IN  [group EXCEPT !.vertexOverride.bytes =
                 transformField(@, 0, group.vertexCountOverride, desc.stride,
                                getAttribute(desc, "Position").offset, translation, scale)]

\* the body of the loop over the groups: "if (!vdata) continue;" and the inner loop
transformOverride(group, translation, scale) ==
    IF group.vertexOverride.null THEN group
    ELSE LET desc == group.vertexDescriptionOverride
         IN  [group EXCEPT !.vertexOverride.bytes =
                 transformOverrideVertices(@, 0, group.vertexCountOverride, desc.stride,
                                           getAttribute(desc, "Position").offset,
                                           getAttribute(desc, "NextPosition").offset,
                                           translation, scale)]

RECURSIVE scalePointSizes(_, _, _, _, _, _)
scalePointSizes(bytes, i, count, stride, offset, scale) ==
    IF ~(i < count) THEN bytes
    ELSE scalePointSizes(
            WriteBytes(bytes, i * stride + offset,
                       EncodeFloat(FloatMul(DecodeFloat(ReadBytes(bytes, i * stride + offset, 4)),
                                            scale))),
            i + 1, count, stride, offset, scale)

Transform(translation, scale) ==
    /\ IF getAttribute(vertexDesc, "Position").format # "Float3"
       THEN UNCHANGED <<vertices, groups>>
       ELSE LET moved == transformField(vertices.bytes, 0, nVertices, vertexDesc.stride,
                                        getAttribute(vertexDesc, "Position").offset,
                                        translation, scale)
                sized == IF getAttribute(vertexDesc, "PointSize").format = "Float1"
                         THEN scalePointSizes(moved, 0, nVertices, vertexDesc.stride,
                                              getAttribute(vertexDesc, "PointSize").offset,
                                              scale)
                         ELSE moved
            IN  /\ vertices' = [vertices EXCEPT !.bytes = sized]
                /\ groups' = [i \in 1..Len(groups) |->
                                 transformOverride(groups[i], translation, scale)]
    /\ ret' = [op |-> "transform", translation |-> translation, scale |-> scale]
    /\ UNCHANGED <<vertexDesc, nVertices, result, distance>>

(***************************************************************************)
(* The layouts a loader hands to setVertexDescription, well-formed or not. *)
(***************************************************************************)
AttributeInputs ==
    {VertexAttribute("Position", "Float3", o) : o \in 0..MaxOffset}
    \cup {VertexAttribute("PointSize", "Float1", o) : o \in 0..MaxOffset}

StrideInputs == {0, 8, 13, 16}

LayoutInputs ==
    {VertexDescription(s, a) : s \in StrideInputs, a \in SeqsUpTo(AttributeInputs, MaxAttributes)}

\* A loader that is refused a layout gives the mesh up.
LayoutRefused == ret.op = "setVertexDescription" /\ ~ret.value

NextLayout == ~LayoutRefused /\ \E desc \in LayoutInputs : SetVertexDescription(desc)

SpecLayout == Init /\ [][NextLayout]_vars

(***************************************************************************)
(* The loader: it sets the layout, then the vertices, before any batch is  *)
(* added, and fills each record as the layout says.                        *)
(***************************************************************************)
\* position of vertex v, in halves: (0,0,0), (0,1,0), (0,0,1), (1,0,0), ...
VertexPosition(v) ==
    CASE v = 0 -> <<0, 0, 0>>
      [] v = 1 -> <<0, 2, 0>>
      [] v = 2 -> <<0, 0, 2>>
      [] OTHER -> <<2 * (v - 2), 0, 0>>

\* point size of vertex v, in halves
VertexPointSize(v) == 2 + v

\* the bytes of the record outside every field the loader knows how to fill
FillByte(v, k) == (37 * v + 11 * k + 5) % 256

RECURSIVE fillRecord(_, _, _)
fillRecord(record, v, attributes) ==
    IF attributes = <<>> THEN record
    ELSE LET attr == Head(attributes)
             written ==
                 CASE attr.semantic = "Position" /\ attr.format = "Float3" ->
                          WriteVector3f(record, attr.offset, VertexPosition(v))
                   [] attr.semantic = "PointSize" /\ attr.format = "Float1" ->
                          WriteBytes(record, attr.offset, EncodeFloat(VertexPointSize(v)))
                   [] OTHER -> record
         IN  fillRecord(written, v, Tail(attributes))

RECURSIVE loadVertices(_, _, _)
loadVertices(desc, v, count) ==
    IF v = count THEN <<>>
    ELSE fillRecord([k \in 1..desc.stride |-> FillByte(v, k)], v, desc.attributes)
         \o loadVertices(desc, v + 1, count)

LoaderLayouts ==
    {VertexDescription(16, <<VertexAttribute("Position", "Float3", 0),
                             VertexAttribute("PointSize", "Float1", 12)>>),
     VertexDescription(20, <<VertexAttribute("Normal", "UByte4", 0),
                             VertexAttribute("Position", "Float3", 4)>>),
     VertexDescription(13, <<VertexAttribute("Position", "Float3", 0)>>),
     VertexDescription(12, <<VertexAttribute("Position", "Float3", 0),
                             VertexAttribute("PointSize", "Float1", 0)>>),
     VertexDescription(8, <<VertexAttribute("PointSize", "Float1", 4)>>)}

LineIndexValues == {0, 1}

\* the caller's contract: every index names a vertex of the buffer
IndicesInRange(indices) ==
    /\ \A k \in 1..Len(indices) : indices[k] < nVertices
    /\ ~vertices.null
    /\ nVertices * vertexDesc.stride <= Len(vertices.bytes)

MainLayouts == {desc \in LoaderLayouts : desc.stride = 16}

Load ==
    /\ groups = <<>>
    /\ \/ /\ nVertices = 0
          /\ \E desc \in MainLayouts : SetVertexDescription(desc)
       \/ /\ vertices.null
          /\ ret.op = "setVertexDescription" /\ ret.value
          /\ LET count == Cardinality(LineIndexValues)
             IN  SetVertices(count, Buffer(1, loadVertices(vertexDesc, 0, count)))

Next ==
    \/ Load
    \/ /\ Len(groups) < MaxGroups
       /\ \E prim \in PrimitiveGroupTypes, materialIndex \in 0..MaxMaterial,
             indices \in SeqsUpTo(LineIndexValues, MaxIndices) :
             /\ IndicesInRange(indices)
             /\ AddGroup(prim, materialIndex, indices)
    \/ AggregateByMaterial
    \/ \E index \in 1..Len(groups) : GroupGetPrimitiveCount(index)
    \/ GetPrimitiveCount

Spec == Init /\ [][Next]_vars

(***************************************************************************)
(* Claims about the batch list.                                            *)
(***************************************************************************)
PositionOf(seq, ptr) == CHOOSE i \in 1..Len(seq) : seq[i].ptr = ptr

\* C1: aggregateByMaterial is a stable sort: the batches after the call are a
\* permutation of the batches before, in ascending order of material index, and
\* batches with equal material index keep their relative order.
C1_StableSort ==
    ret.op = "aggregateByMaterial" =>
        /\ Len(groups) = Len(ret.before)
        /\ \A i \in 1..Len(groups) : \E j \in 1..Len(groups) : groups[i] = ret.before[j]
        /\ \A i \in 1..Len(groups) : \E j \in 1..Len(groups) : ret.before[i] = groups[j]
        /\ \A i, j \in 1..Len(groups) :
              i < j => groups[i].materialIndex <= groups[j].materialIndex
        /\ \A i, j \in 1..Len(groups) :
              (i < j /\ groups[i].materialIndex = groups[j].materialIndex)
                  => PositionOf(ret.before, groups[i].ptr) < PositionOf(ret.before, groups[j].ptr)

\* The primitive count C2 states for a topology and an index count n.
StatedPrimitiveCount(prim, n) ==
    CASE prim = "TriList" -> n \div 3
      [] prim \in {"TriStrip", "TriFan", "LineStrip"} -> IF n < 2 THEN 0 ELSE n - 2
      [] prim = "LineList" -> n \div 2
      [] prim \in {"PointList", "SpriteList"} -> n
      [] OTHER -> 0

RECURSIVE StatedMeshPrimitiveCount(_)
StatedMeshPrimitiveCount(seq) ==
    IF seq = <<>> THEN 0
    ELSE StatedPrimitiveCount(Head(seq).prim, Len(Head(seq).indices))
         + StatedMeshPrimitiveCount(Tail(seq))

\* C2: PrimitiveGroup::getPrimitiveCount is n/3 for a triangle list, n-2 for a
\* strip, a fan and a line strip, n/2 for a line list, n for points and sprites,
\* and 0 below the topology's minimum (never a wrapped-around unsigned value);
\* Mesh::getPrimitiveCount is the sum of the per-batch values.
C2_PrimitiveCount ==
    /\ ret.op = "PrimitiveGroup::getPrimitiveCount" =>
          ret.value = U32(StatedPrimitiveCount(groups[ret.group].prim,
                                               Len(groups[ret.group].indices)))
    /\ ret.op = "getPrimitiveCount" => ret.value = U32(StatedMeshPrimitiveCount(groups))

\* The number of segments C4 states for N indices.
StatedLineCount(prim, n) ==
    IF prim = "LineStrip" THEN (IF n < 2 THEN 0 ELSE n - 1) ELSE n \div 2

RECURSIVE StatedLineIndices(_, _)
StatedLineIndices(i, lineCount) ==
    IF i >= lineCount THEN <<>>
    ELSE <<4 * i, 4 * i + 1, 4 * i + 2, 4 * i + 2, 4 * i + 3, 4 * i>>
         \o StatedLineIndices(i + 1, lineCount)

IsLineCall == ret.op = "addGroup" /\ ret.prim \in {"LineStrip", "LineList"}

\* C4: the expansion of N line indices has N-1 segments for a strip (0 when the
\* strip has fewer than 2 indices) and N/2 for a list; the override has 4 vertices
\* and 6 indices per segment, the indices of segment i being
\* (4i, 4i+1, 4i+2, 4i+2, 4i+3, 4i), each below the override vertex count, and
\* the override topology is the triangle list.
C4_LineExpansion ==
    IsLineCall =>
        /\ ~ret.threw
        /\ LET g == groups[Len(groups)]
               lineCount == StatedLineCount(ret.prim, Len(ret.indices))
           IN  /\ g.vertexCountOverride = 4 * lineCount
               /\ Len(g.vertexOverride.bytes) = 4 * lineCount * g.vertexDescriptionOverride.stride
               /\ Len(g.indicesOverride) = 6 * lineCount
               /\ g.indicesOverride = StatedLineIndices(0, lineCount)
               /\ \A k \in 1..Len(g.indicesOverride) :
                     g.indicesOverride[k] < g.vertexCountOverride
               /\ g.primOverride = "TriList"

\* C7: addGroup(topology, materialIndex, indices) appends exactly one batch at the
\* end, leaves the earlier batches and their order as they were, and returns the
\* new batch count; the new batch's base indices, base topology and material are
\* the arguments, and it carries an override buffer exactly when the topology is a
\* line topology (otherwise the override topology is the base topology).
C7_AddGroup ==
    [][ret'.op = "addGroup" =>
          /\ ~ret'.threw
          /\ Len(groups') = Len(groups) + 1
          /\ SubSeq(groups', 1, Len(groups)) = groups
          /\ ret'.value = Len(groups')
          /\ LET g == groups'[Len(groups')]
             IN  /\ g.indices = ret'.indices
                 /\ g.prim = ret'.prim
                 /\ g.materialIndex = ret'.materialIndex
                 /\ ~g.vertexOverride.null <=> ret'.prim \in {"LineStrip", "LineList"}
                 /\ g.vertexOverride.null => g.primOverride = g.prim]_vars

(***************************************************************************)
(* A loaded mesh to which line batches are added and which is transformed. *)
(***************************************************************************)
InitLoaded ==
    /\ \E desc \in LoaderLayouts :
          /\ vertexDesc = desc
          /\ vertices = Buffer(1, loadVertices(desc, 0, Cardinality(LineIndexValues)))
    /\ nVertices = Cardinality(LineIndexValues)
    /\ groups = <<>>
    /\ ret = [op |-> "setVertices"]
    /\ result = UnwrittenResult
    /\ distance = UnwrittenDistance

\* translations in halves: (1, 0, 0) and (-1, 1, 0); scale 2
TranslationInputs == {<<2, 0, 0>>, <<-2, 2, 0>>}

ScaleInputs == {4}

\* every float the transform reads, as the mesh holds it now
MeshFloats ==
    LET position == getAttribute(vertexDesc, "Position")
        pointSize == getAttribute(vertexDesc, "PointSize")
    IN  UNION {
          (IF position.format = "Float3"
           THEN {ReadVector3f(vertices.bytes, v * vertexDesc.stride + position.offset)[c] :
                    c \in 1..3}
           ELSE {})
          \cup (IF pointSize.format = "Float1"
                THEN {DecodeFloat(ReadBytes(vertices.bytes,
                                            v * vertexDesc.stride + pointSize.offset, 4))}
                ELSE {}) : v \in 0..(nVertices - 1)}

\* index sequences that walk round the vertices: 0, 1, ..., count - 1, 0, ...
IndexWalks(count, maxLen) ==
    {[k \in 1..n |-> (k - 1) % count] : n \in 0..maxLen}

AddLines(inputs) ==
    /\ Len(groups) < MaxLineGroups
    /\ \E prim \in {"LineStrip", "LineList"}, indices \in inputs :
          /\ IndicesInRange(indices)
          /\ AddGroup(prim, 0, indices)

NextExpand == AddLines(SeqsUpTo(LineIndexValues, MaxLineIndices))

SpecExpand == InitLoaded /\ [][NextExpand]_vars

NextLines ==
    \/ AddLines(IndexWalks(nVertices, MaxLineIndices))
    \/ /\ \A f \in MeshFloats : Abs(f) <= MaxCoordinate
       /\ \E translation \in TranslationInputs, scale \in ScaleInputs :
             Transform(translation, scale)

SpecLines == InitLoaded /\ [][NextLines]_vars

(***************************************************************************)
(* Picking.  Coordinates are counted in halves, as everywhere; a ray       *)
(* direction is direction * 2^exponent, and a distance t is the double      *)
(* num / den * 2^exponent, den > 0, in lowest terms.  The triangles and     *)
(* rays used are small enough for every product of the test to be exact in  *)
(* binary64.                                                                *)
(***************************************************************************)
Sign(x) == IF x > 0 THEN 1 ELSE IF x < 0 THEN -1 ELSE 0

RECURSIVE GCD(_, _)
GCD(a, b) == IF b = 0 THEN a ELSE GCD(b, a % b)

Double(num, den, exponent) ==
    LET g == GCD(Abs(num), Abs(den))
    IN  [num |-> Sign(num) * Sign(den) * (Abs(num) \div g),
         den |-> Abs(den) \div g,
         exponent |-> exponent]

\* 1.0e30 = 0.78886090522101180... * 2^100; no distance of exponent 100 that a
\* pick of these meshes computes lies between 0.7888609 * 2^100 and 1.0e30
maxDistance == [num |-> 7888609, den |-> 10000000, exponent |-> 100]

\* a < b, for b > 0; the exponents differ only when b is maxDistance
lessThan(a, b) ==
    IF a.exponent = b.exponent
    THEN a.num * b.den < b.num * a.den
    ELSE a.exponent < b.exponent \/ a.num <= 0

dot(a, b) == a[1] * b[1] + a[2] * b[2] + a[3] * b[3]

cross(a, b) ==
    <<a[2] * b[3] - a[3] * b[2], a[3] * b[1] - a[1] * b[3], a[1] * b[2] - a[2] * b[1]>>

minus(a, b) == <<a[1] - b[1], a[2] - b[2], a[3] - b[3]>>

\* the barycentric test of the point at distance t, lines 445 to 459; q, s0 and
\* s1 are kept as integers: q times t.den, s0 and s1 times t.den * det
insideTriangle(v0, e0, e1, ray, t) ==
    LET m00 == dot(e0, e0)
        m01 == dot(e0, e1)
        m10 == dot(e1, e0)
        m11 == dot(e1, e1)
        det == m00 * m11 - m01 * m10
        q == [k \in 1..3 |-> (ray.origin[k] - v0[k]) * t.den + ray.direction[k] * t.num]
        q0 == dot(e0, q)
        q1 == dot(e1, q)
        s0 == (m11 * q0 - m01 * q1) * Sign(det)
        s1 == (m00 * q1 - m10 * q0) * Sign(det)
    IN  /\ det # 0
        /\ s0 >= 0
        /\ s1 >= 0
        /\ s0 + s1 <= t.den * Abs(det)

\* the test of one triangle against the ray, lines 425 to 471
intersect_AcceptsTies(v0, v1, v2, ray, closest) ==
    LET e0 == minus(v1, v0)
        e1 == minus(v2, v0)
        n == cross(e0, e1)
        c == dot(n, ray.direction)
        t == Double(dot(n, minus(v0, ray.origin)), c, -ray.exponent)
    IN  IF c # 0 /\ ~lessThan(closest, t) /\ t.num > 0 /\ insideTriangle(v0, e0, e1, ray, t)
        THEN [accepted |-> TRUE, t |-> t]
        ELSE [accepted |-> FALSE]

intersect(v0, v1, v2, ray, closest) ==
    LET e0 == minus(v1, v0)
        e1 == minus(v2, v0)
        n == cross(e0, e1)
        c == dot(n, ray.direction)
        t == Double(dot(n, minus(v0, ray.origin)), c, -ray.exponent)
    IN  IF c # 0 /\ lessThan(t, closest) /\ t.num > 0 /\ insideTriangle(v0, e0, e1, ray, t)
        THEN [accepted |-> TRUE, t |-> t]
        ELSE [accepted |-> FALSE]

\* group->indices[at]; a read past the end yields whatever lies there
readIndex(indices, at, garbage) ==
    IF at < Len(indices) THEN indices[at + 1] ELSE garbage

\* "Get the indices for the next triangle", lines 474 to 504; reads are the
\* positions of the index sequence that were read
nextTriangle(group, w, garbage) ==
    LET nIndices == Len(group.indices)
        read(at) == readIndex(group.indices, at, garbage)
        note(at) == [group |-> group.ptr, at |-> at]
    IN  CASE group.prim = "TriList" ->
                 IF w.index + 3 < nIndices
                 THEN [w EXCEPT !.index = @ + 3,
                                !.i0 = read(w.index + 3),
                                !.i1 = read(w.index + 4),
                                !.i2 = read(w.index + 5),
                                !.reads = @ \o <<note(w.index + 3), note(w.index + 4),
                                                 note(w.index + 5)>>]
                 ELSE [w EXCEPT !.index = @ + 3]
          [] group.prim = "TriStrip" ->
                 IF w.index + 1 < nIndices
                 THEN [w EXCEPT !.index = @ + 1,
                                !.i0 = w.i1,
                                !.i1 = w.i2,
                                !.i2 = read(w.index + 1),
                                !.reads = Append(@, note(w.index + 1))]
                 ELSE [w EXCEPT !.index = @ + 1]
          [] OTHER ->
                 IF w.index + 1 < nIndices
                 THEN [w EXCEPT !.index = @ + 2,
                                !.i1 = w.i2,
                                !.i2 = read(w.index + 2),
                                !.reads = Append(@, note(w.index + 2))]
                 ELSE [w EXCEPT !.index = @ + 1]

vertexAt(i) ==
    ReadVector3f(vertices.bytes,
                 i * vertexDesc.stride + getAttribute(vertexDesc, "Position").offset)

\* the triangle about to be tested, with the primitive index it is tested under
noteTriangle(group, w) ==
    [w EXCEPT !.tested = Append(@, [group |-> group.ptr,
                                    primitiveIndex |-> w.primitiveIndex,
                                    triangle |-> <<w.i0, w.i1, w.i2>>])]

\* lines 461 to 467
accept(group, given, w, hit) ==
    IF ~hit.accepted THEN noteTriangle(group, w)
    ELSE IF ~given THEN [noteTriangle(group, w) EXCEPT !.closest = hit.t]
    ELSE [noteTriangle(group, w) EXCEPT !.closest = hit.t,
                                  !.result = [written |-> TRUE,
                                              group |-> group.ptr,
                                              primitiveIndex |-> w.primitiveIndex,
                                              distance |-> hit.t]]

\* primitiveIndex++, line 506
countPrimitive(w) == [w EXCEPT !.primitiveIndex = @ + 1]

\* one pass through the body of the do-while loop, lines 424 to 506
triangleStep(group, ray, given, garbage, w) ==
    countPrimitive(
        nextTriangle(group,
                     accept(group, given, w,
                            intersect(vertexAt(w.i0), vertexAt(w.i1), vertexAt(w.i2),
                                      ray, w.closest)),
                     garbage))

\* the do-while loop over the triangles of one group, lines 422 to 508
RECURSIVE walk(_, _, _, _, _)
RECURSIVE whileIndex(_, _, _, _, _)
whileIndex(group, ray, given, garbage, w) ==
    IF w.index < Len(group.indices) THEN walk(group, ray, given, garbage, w) ELSE w

walk(group, ray, given, garbage, w) ==
    whileIndex(group, ray, given, garbage, triangleStep(group, ray, given, garbage, w))

\* the condition of lines 409 to 413
walked(group) ==
    /\ group.prim \in {"TriList", "TriStrip", "TriFan"}
    /\ Len(group.indices) >= 3
    /\ ~(group.prim = "TriList" /\ Len(group.indices) % 3 # 0)

\* what pick carries from one group to the next
carried(w) ==
    [closest |-> w.closest, result |-> w.result, tested |-> w.tested, reads |-> w.reads]

\* the walk of one group from its first triangle, lines 415 to 508
walkGroup(group, ray, given, garbage, s) ==
    carried(walk(group, ray, given, garbage,
                 [primitiveIndex |-> 0,
                  index |-> 0,
                  i0 |-> group.indices[1],
                  i1 |-> group.indices[2],
                  i2 |-> group.indices[3],
                  closest |-> s.closest,
                  result |-> s.result,
                  tested |-> s.tested,
                  reads |-> s.reads \o <<[group |-> group.ptr, at |-> 0],
                                         [group |-> group.ptr, at |-> 1],
                                         [group |-> group.ptr, at |-> 2]>>]))

\* the loop over the groups, lines 402 to 510
RECURSIVE pickGroups(_, _, _, _, _)
pickGroups(g, ray, given, garbage, s) ==
    IF g > Len(groups) THEN s
    ELSE IF ~walked(groups[g]) THEN pickGroups(g + 1, ray, given, garbage, s)
    ELSE pickGroups(g + 1, ray, given, garbage, walkGroup(groups[g], ray, given, garbage, s))

\* return closest != maxDistance, line 512, with what the walk left behind
returned(s) ==
    [value |-> s.closest # maxDistance,
     result |-> s.result,
     tested |-> s.tested,
     reads |-> s.reads]

\* what pick starts from, lines 387 and 388
started(callerResult) ==
    [closest |-> maxDistance, result |-> callerResult, tested |-> <<>>, reads |-> <<>>]

\* pick(rayOrigin, rayDirection, result): given says whether result is non-null,
\* callerResult is what it points to
pick(ray, given, callerResult, garbage) ==
    IF \/ getAttribute(vertexDesc, "Position").semantic # "Position"
       \/ getAttribute(vertexDesc, "Position").format # "Float3"
    THEN returned(started(callerResult))
    ELSE returned(pickGroups(1, ray, given, garbage, started(callerResult)))

\* what a read past the end of an index sequence may yield
GarbageIndices == {0, nVertices}

\* the caller's PickResult after the call, and the call as it is remembered
picked(ray, given, out) ==
    /\ result' = out.result
    /\ ret' = [op |-> "pick", ray |-> ray, given |-> given, value |-> out.value,
               tested |-> out.tested, reads |-> out.reads]
    /\ UNCHANGED <<vertexDesc, nVertices, vertices, groups, distance>>

Pick(ray, given) ==
    \E garbage \in GarbageIndices : picked(ray, given, pick(ray, given, result, garbage))

\* lines 521 to 526: if (hit) distance = result.distance
pickedDistance(ray, out) ==
    /\ distance' = IF out.value
                   THEN [written |-> TRUE, value |-> out.result.distance]
                   ELSE distance
    /\ ret' = [op |-> "pickDistance", ray |-> ray, given |-> TRUE, value |-> out.value,
               tested |-> out.tested, reads |-> out.reads]
    /\ UNCHANGED <<vertexDesc, nVertices, vertices, groups, result>>

\* pick(rayOrigin, rayDirection, distance), lines 516 to 527
PickDistance(ray) ==
    \E garbage \in GarbageIndices :
        pickedDistance(ray, pick(ray, TRUE, UnwrittenResult, garbage))

(***************************************************************************)
(* A loaded mesh of four vertices, A (0,0,0), B (0,1,0), C (0,0,1) and     *)
(* D (1,0,0), to which triangle batches are added and which is picked.      *)
(***************************************************************************)
MaxPickGroups == 2     \* batches of a mesh that is picked

PickVertices == 4      \* vertices of a mesh that is picked

PickLayouts ==
    {VertexDescription(20, <<VertexAttribute("Normal", "UByte4", 0),
                             VertexAttribute("Position", "Float3", 4)>>),
     VertexDescription(16, <<VertexAttribute("Position", "Float4", 0)>>),
     VertexDescription(8, <<VertexAttribute("PointSize", "Float1", 4)>>)}

\* what the caller's PickResult and double hold before the query: nothing yet,
\* or the outcome of an earlier query of some other mesh
CallerOutputs ==
    {[result |-> UnwrittenResult, distance |-> UnwrittenDistance],
     [result |-> [written |-> TRUE, group |-> 0, primitiveIndex |-> 7,
                  distance |-> Double(3, 1, 0)],
      distance |-> [written |-> TRUE, value |-> Double(3, 1, 0)]]}

InitPick ==
    /\ \E desc \in PickLayouts :
          /\ vertexDesc = desc
          /\ vertices = Buffer(1, loadVertices(desc, 0, PickVertices))
    /\ nVertices = PickVertices
    /\ groups = <<>>
    /\ ret = [op |-> "setVertices"]
    /\ \E caller \in CallerOutputs :
          /\ result = caller.result
          /\ distance = caller.distance

\* the batches of a model file: the faces ABC and BCD as a list, a strip and a
\* fan over A, B, C, D, and batches that pick passes over
BatchInputs ==
    {<<"TriList", <<0, 1, 2, 1, 2, 3>>>>,
     <<"TriStrip", <<0, 1, 2, 3>>>>,
     <<"TriFan", <<0, 1, 2, 3>>>>,
     <<"TriList", <<0, 1, 2, 3>>>>,
     <<"TriStrip", <<0, 1>>>>,
     <<"PointList", <<0, 1, 2>>>>}

\* rays along the x axis from both sides, of length 1 and of length 2^-100, a
\* ray that passes beside the faces and one that runs along the plane of ABC
RayInputs ==
    {[origin |-> <<-2, 0, 0>>, direction |-> <<2, 0, 0>>, exponent |-> 0],
     [origin |-> <<-2, 0, 0>>, direction |-> <<2, 0, 0>>, exponent |-> -100],
     [origin |-> <<-1, 1, 1>>, direction |-> <<2, 0, 0>>, exponent |-> -100],
     [origin |-> <<4, 0, 0>>, direction |-> <<-2, 0, 0>>, exponent |-> 0],
     [origin |-> <<4, 0, 0>>, direction |-> <<2, 0, 0>>, exponent |-> 0],
     [origin |-> <<-2, 4, 0>>, direction |-> <<2, 0, 0>>, exponent |-> 0],
     [origin |-> <<-2, 0, 0>>, direction |-> <<0, 2, 0>>, exponent |-> 0]}

\* the mesh is built, then handed over and queried
Queried == ret.op \in {"pick", "pickDistance"}

NextPick ==
    \/ /\ ~Queried
       /\ Len(groups) < MaxPickGroups
       /\ \E batch \in BatchInputs :
             /\ IndicesInRange(batch[2])
             /\ AddGroup(batch[1], 0, batch[2])
    \/ /\ ~Queried
       /\ \E ray \in RayInputs, given \in BOOLEAN : Pick(ray, given)
    \/ /\ ~Queried
       /\ \E ray \in RayInputs : PickDistance(ray)

SpecPick == InitPick /\ [][NextPick]_vars

(***************************************************************************)
(* Claims about the line expansion and the transform.                      *)
(***************************************************************************)
\* the endpoints (this, other) of segment i, as C5 names them
SegmentEnds(prim, indices, i) ==
    IF prim = "LineStrip"
    THEN <<indices[i + 1], indices[i + 2]>>
    ELSE <<indices[2 * i + 1], indices[2 * i + 2]>>

OverrideVertex(g, k) ==
    ReadBytes(g.vertexOverride.bytes, k * g.vertexDescriptionOverride.stride,
              g.vertexDescriptionOverride.stride)

MeshRecord(v) == ReadBytes(vertices.bytes, v * vertexDesc.stride, vertexDesc.stride)

\* C5: for every segment i with endpoints this and other, the override vertices
\* 4i..4i+3 are (this, position of other, -0.5), (this, position of other, +0.5),
\* (other, position of this, -0.5), (other, position of this, +0.5); the copied
\* part is the whole original record, and NextPosition and ScaleFactor lie at
\* originalStride and originalStride + size(position format).
C5_LineVertices ==
    (IsLineCall /\ ~ret.threw) =>
        LET g == groups[Len(groups)]
            position == getAttribute(vertexDesc, "Position")
            positionSize == getFormatSize(position.format)
            nextPosition == getAttribute(g.vertexDescriptionOverride, "NextPosition")
            scaleFactor == getAttribute(g.vertexDescriptionOverride, "ScaleFactor")
        IN  /\ nextPosition.semantic = "NextPosition"
            /\ nextPosition.offset = vertexDesc.stride
            /\ scaleFactor.semantic = "ScaleFactor"
            /\ scaleFactor.offset = vertexDesc.stride + positionSize
            /\ \A i \in 0..(StatedLineCount(ret.prim, Len(ret.indices)) - 1) :
                  \A k \in 0..3 :
                      LET ends == SegmentEnds(ret.prim, ret.indices, i)
                          copied == IF k < 2 THEN ends[1] ELSE ends[2]
                          opposite == IF k < 2 THEN ends[2] ELSE ends[1]
                          vertex == OverrideVertex(g, 4 * i + k)
                      IN  /\ Len(vertex) = vertexDesc.stride + positionSize + 4
                          /\ SubSeq(vertex, 1, vertexDesc.stride) = MeshRecord(copied)
                          /\ ReadBytes(vertex, nextPosition.offset, positionSize)
                                = ReadBytes(MeshRecord(opposite), position.offset, positionSize)
                          /\ DecodeFloat(ReadBytes(vertex, scaleFactor.offset, 4))
                                = IF k % 2 = 0 THEN -1 ELSE 1

\* C5 is exercised: a strip of three indices whose segments join different
\* vertices has been expanded.
C5_Witness ==
    /\ IsLineCall
    /\ ~ret.threw
    /\ ret.prim = "LineStrip"
    /\ Len(ret.indices) = 3
    /\ ret.indices[1] # ret.indices[2]
    /\ getAttribute(vertexDesc, "Position").format = "Float3"

HasFloat3Position ==
    /\ getAttribute(vertexDesc, "Position").semantic = "Position"
    /\ getAttribute(vertexDesc, "Position").format = "Float3"

\* a 1-float PointSize field that shares bytes with the Position field
PointSizeOverlapsPosition ==
    LET position == getAttribute(vertexDesc, "Position")
        pointSize == getAttribute(vertexDesc, "PointSize")
    IN  /\ pointSize.format = "Float1"
        /\ pointSize.offset < position.offset + getFormatSize(position.format)
        /\ position.offset < pointSize.offset + getFormatSize(pointSize.format)

MeshPosition(v) ==
    ReadVector3f(vertices.bytes,
                 v * vertexDesc.stride + getAttribute(vertexDesc, "Position").offset)

\* every override vertex holds the current mesh position of the endpoint it was
\* copied from, and as NextPosition that of the segment's other endpoint
OverridesInSync ==
    \A n \in 1..Len(groups) :
        LET g == groups[n]
            desc == g.vertexDescriptionOverride
        IN  ~g.vertexOverride.null =>
                \A i \in 0..(g.vertexCountOverride \div 4 - 1) :
                    \A k \in 0..3 :
                        LET ends == SegmentEnds(g.prim, g.indices, i)
                            copied == IF k < 2 THEN ends[1] ELSE ends[2]
                            opposite == IF k < 2 THEN ends[2] ELSE ends[1]
                            at == (4 * i + k) * desc.stride
                        IN  /\ ReadVector3f(g.vertexOverride.bytes,
                                            at + getAttribute(desc, "Position").offset)
                                  = MeshPosition(copied)
                            /\ ReadVector3f(g.vertexOverride.bytes,
                                            at + getAttribute(desc, "NextPosition").offset)
                                  = MeshPosition(opposite)

\* the step replaces every mesh position p by (p + translation) * scale; with
\* translation 1 and scale 2 (halves: 2 and 4) position 0 becomes 2 and 2 becomes 6
MeshMoved ==
    \A v \in 0..(nVertices - 1) :
        /\ \A c \in 1..3 :
              MeshPosition(v)'[c] = FloatMul(MeshPosition(v)[c] + ret'.translation[c], ret'.scale)
        /\ (ret'.translation[1] = 2 /\ ret'.scale = 4) =>
              /\ MeshPosition(v)[1] = 0 => MeshPosition(v)'[1] = 4
              /\ MeshPosition(v)[1] = 4 => MeshPosition(v)'[1] = 12

\* C8 as stated: on a mesh with a 3-float Position, transform replaces every mesh
\* position p by (p + translation) * scale, and after any sequence of line
\* addGroup and transform calls every override vertex's Position and NextPosition
\* equal the current mesh positions of its two endpoints; a second transform with
\* the same arguments moves the positions again (0, 2, 6).
C8_TransformAnyLayout ==
    [][HasFloat3Position =>
          /\ ret'.op = "transform" => MeshMoved
          /\ OverridesInSync']_vars

\* C8 as amended: the same, on a mesh whose Position bytes are not shared with a
\* 1-float PointSize field (transform scales the point sizes of the mesh buffer in
\* a further pass, which is not applied to the override buffers).
C8_Transform ==
    [][(HasFloat3Position /\ ~PointSizeOverlapsPosition) =>
          /\ ret'.op = "transform" => MeshMoved
          /\ OverridesInSync']_vars

\* C8 is exercised: two transforms by (1, 0, 0) and 2 of a mesh that has a line
\* override; vertex 0 went from 0 over 2 to 6.
C8_Witness ==
    /\ ret.op = "transform"
    /\ HasFloat3Position
    /\ ~PointSizeOverlapsPosition
    /\ Len(groups) >= 1
    /\ groups[1].vertexCountOverride >= 4
    /\ groups[1].indices[1] # groups[1].indices[2]
    /\ MeshPosition(0)[1] = 12

\* The layout fault of C6: a field that is misaligned or does not fit in the stride.
LayoutFault(desc) ==
    \E i \in 1..Len(desc.attributes) :
        \/ desc.attributes[i].offset % 4 # 0
        \/ desc.attributes[i].offset + getFormatSize(desc.attributes[i].format) > desc.stride

\* C6: setVertexDescription(layout) returns false and leaves the mesh's layout
\* (stride, fields, semantic lookup) unchanged exactly when some field of the
\* supplied layout is misaligned or overruns the stride; otherwise (empty field
\* list and duplicate semantics included) it returns true and the mesh's layout
\* is the supplied one.
C6_SetVertexDescription ==
    [][ret'.op = "setVertexDescription" =>
          IF LayoutFault(ret'.desc)
          THEN ret'.value = FALSE /\ vertexDesc' = vertexDesc
          ELSE ret'.value = TRUE /\ vertexDesc' = ret'.desc]_vars

\* C6 is exercised: a rejected layout after an adopted one that has duplicate
\* semantics.
C6_Witness ==
    /\ ret.op = "setVertexDescription"
    /\ ret.value = FALSE
    /\ Len(vertexDesc.attributes) = 2
    /\ vertexDesc.attributes[1].semantic = vertexDesc.attributes[2].semantic

(***************************************************************************)
(* Claims about picking.                                                   *)
(***************************************************************************)
\* eligibility as C3 and C10 word it
EligibleBatch(group) ==
    \/ group.prim = "TriList" /\ Len(group.indices) >= 3 /\ Len(group.indices) % 3 = 0
    \/ group.prim \in {"TriStrip", "TriFan"} /\ Len(group.indices) >= 3

\* the triangles of the standard adjacency, in order k = 0, 1, ...
StandardTriangles(group) ==
    LET idx == group.indices
        n == Len(idx)
    IN  CASE group.prim = "TriList" ->
                 [k \in 1..(n \div 3) |-> <<idx[3 * k - 2], idx[3 * k - 1], idx[3 * k]>>]
          [] group.prim = "TriStrip" ->
                 [k \in 1..(n - 2) |-> <<idx[k], idx[k + 1], idx[k + 2]>>]
          [] OTHER ->
                 [k \in 1..(n - 2) |-> <<idx[1], idx[k + 1], idx[k + 2]>>]

TestedOf(ptr) == SelectSeq(ret.tested, LAMBDA e : e.group = ptr)

\* C3: for every eligible triangle batch, pick tests exactly the triangles of the
\* standard adjacency, once each and in order, triangle k under primitive index
\* k, which is smaller than the batch's primitive count.
C3_StandardTriangles ==
    (Queried /\ HasFloat3Position) =>
        \A g \in 1..Len(groups) :
            EligibleBatch(groups[g]) =>
                LET tested == TestedOf(groups[g].ptr)
                    standard == StandardTriangles(groups[g])
                    count == getPrimitiveCount(groups[g])
                IN  /\ Len(tested) = Len(standard)
                    /\ \A k \in 1..Len(tested) :
                          /\ tested[k].triangle = standard[k]
                          /\ tested[k].primitiveIndex = k - 1
                          /\ count.hi = 0 /\ tested[k].primitiveIndex < count.lo

\* C10: every read of an eligible batch's index sequence during pick is at a
\* position smaller than the number of its indices (the walk itself always ends:
\* it is what produced the reads listed).
C10_IndexReads ==
    Queried =>
        \A k \in 1..Len(ret.reads) :
            \E g \in 1..Len(groups) :
                /\ groups[g].ptr = ret.reads[k].group
                /\ EligibleBatch(groups[g])
                /\ ret.reads[k].at < Len(groups[g].indices)

\* the distance t of the ray to the plane of a triangle, for c # 0
DistanceOf(triangle, ray) ==
    LET v0 == MeshPosition(triangle[1])
        n == cross(minus(MeshPosition(triangle[2]), v0), minus(MeshPosition(triangle[3]), v0))
    IN  Double(dot(n, minus(v0, ray.origin)), dot(n, ray.direction), -ray.exponent)

\* acceptance as C9 words it: c # 0, t > 0, a non-singular metric, s0 >= 0,
\* s1 >= 0 and s0 + s1 <= 1, with s0 and s1 solved by Cramer's rule
Accepted(triangle, ray) ==
    LET v0 == MeshPosition(triangle[1])
        e0 == minus(MeshPosition(triangle[2]), v0)
        e1 == minus(MeshPosition(triangle[3]), v0)
        c == dot(cross(e0, e1), ray.direction)
        t == DistanceOf(triangle, ray)
        det == dot(e0, e0) * dot(e1, e1) - dot(e0, e1) * dot(e0, e1)
        \* the point hit minus v0, times t.den
        q == [k \in 1..3 |-> (ray.origin[k] - v0[k]) * t.den + ray.direction[k] * t.num]
        \* s0 and s1, times t.den * det
        s0 == dot(e1, e1) * dot(e0, q) - dot(e0, e1) * dot(e1, q)
        s1 == dot(e0, e0) * dot(e1, q) - dot(e0, e1) * dot(e0, q)
    IN  /\ c # 0
        /\ t.num > 0
        /\ det # 0
        /\ s0 * Sign(det) >= 0
        /\ s1 * Sign(det) >= 0
        /\ (s0 + s1) * Sign(det) <= t.den * Abs(det)

\* what C9 says of a query whose accepted triangles are those at the positions
\* hits of the walk: its value, and what it leaves in the caller's outputs
PickOutcome(hits) ==
    LET tested == ret'.tested
        t(k) == DistanceOf(tested[k].triangle, ret'.ray)
        first == CHOOSE k \in hits :
                    \A j \in hits : lessThan(t(k), t(j)) \/ (t(k) = t(j) /\ k <= j)
    IN  /\ ret'.value = (hits # {})
        /\ ~HasFloat3Position => ~ret'.value /\ result' = result /\ distance' = distance
        /\ ret'.op = "pick" =>
              result' = IF ret'.value /\ ret'.given
                        THEN [written |-> TRUE,
                              group |-> tested[first].group,
                              primitiveIndex |-> tested[first].primitiveIndex,
                              distance |-> t(first)]
                        ELSE result
        /\ ret'.op = "pickDistance" =>
              distance' = IF ret'.value
                          THEN [written |-> TRUE, value |-> t(first)]
                          ELSE distance

\* C9 as stated: pick returns true exactly when some tested triangle is accepted;
\* then the recorded distance is the least t of the accepted triangles and the
\* recorded batch and primitive index are those of the first tested triangle that
\* attains it; without a 3-float Position pick returns false and writes nothing,
\* and the distance overload leaves its output unchanged on a miss.
C9_PickAnyDistance ==
    [][ret'.op \in {"pick", "pickDistance"} =>
          PickOutcome({k \in 1..Len(ret'.tested) :
                          Accepted(ret'.tested[k].triangle, ret'.ray)})]_vars

\* C9 as amended: the same, where a triangle counts as accepted only if its t is
\* also smaller than 1.0e30.
C9_Pick ==
    [][ret'.op \in {"pick", "pickDistance"} =>
          PickOutcome({k \in 1..Len(ret'.tested) :
                          /\ Accepted(ret'.tested[k].triangle, ret'.ray)
                          /\ lessThan(DistanceOf(ret'.tested[k].triangle, ret'.ray),
                                      maxDistance)})]_vars

\* C9 is exercised: a hit recorded for a triangle that is not the first one
\* tested, after an accepted triangle that lies farther away.
C9_Witness ==
    /\ ret.op = "pick"
    /\ ret.given
    /\ ret.value
    /\ result.written
    /\ \E k \in 1..Len(ret.tested) :
          /\ Accepted(ret.tested[k].triangle, ret.ray)
          /\ lessThan(result.distance, DistanceOf(ret.tested[k].triangle, ret.ray))
          /\ \E j \in (k + 1)..Len(ret.tested) :
                /\ ret.tested[j].group = result.group
                /\ ret.tested[j].primitiveIndex = result.primitiveIndex
                /\ DistanceOf(ret.tested[j].triangle, ret.ray) = result.distance

(***************************************************************************)
(* Claims about the layout of a line override.                             *)
(***************************************************************************)
\* the layout invariant as C11 states it: every field's offset is a multiple
\* of 4 and offset + size(format) <= stride
LayoutInvariant(desc) ==
    \A i \in 1..Len(desc.attributes) :
        /\ desc.attributes[i].offset % 4 = 0
        /\ desc.attributes[i].offset + getFormatSize(desc.attributes[i].format) <= desc.stride

HasPosition == getAttribute(vertexDesc, "Position").semantic = "Position"

\* C11: when the mesh layout is accepted by validate() and has a Position field,
\* the override layout of every expanded line batch satisfies the layout
\* invariant, its stride is originalStride + size(position format) + 4, the
\* original fields keep their offsets, NextPosition is at originalStride and
\* ScaleFactor at originalStride + size(position format), and the lookup for
\* NextPosition and ScaleFactor returns these appended fields.
C11_OverrideLayout ==
    (validate(vertexDesc) /\ HasPosition) =>
        \A k \in 1..Len(groups) :
            ~groups[k].vertexOverride.null =>
                LET override == groups[k].vertexDescriptionOverride
                    position == getAttribute(vertexDesc, "Position")
                    positionSize == getFormatSize(position.format)
                    count == Len(vertexDesc.attributes)
                    nextPosition ==
                        VertexAttribute("NextPosition", position.format, vertexDesc.stride)
                    scaleFactor ==
                        VertexAttribute("ScaleFactor", "Float1",
                                        vertexDesc.stride + positionSize)
                IN  /\ LayoutInvariant(override)
                    /\ override.stride = vertexDesc.stride + positionSize + 4
                    /\ Len(override.attributes) = count + 2
                    /\ SubSeq(override.attributes, 1, count) = vertexDesc.attributes
                    /\ override.attributes[count + 1] = nextPosition
                    /\ override.attributes[count + 2] = scaleFactor
                    /\ getAttribute(override, "NextPosition") = nextPosition
                    /\ getAttribute(override, "ScaleFactor") = scaleFactor

====
